---- MODULE Spec2Model ----
(***************************************************************************)
(* The parallel heap iterator of ZGC (zHeapIterator.cpp): N workers run    *)
(* object_iterate concurrently.  Each worker pushes the roots it claims,   *)
(* then drains its own queues, steals from its peers and offers            *)
(* termination.  Objects are deduplicated by a bitmap per granule that is  *)
(* installed lazily under a lock.                                          *)
(***************************************************************************)
EXTENDS Integers, Sequences, FiniteSets, TLC

\* ------------------------------------------------------------------ bounds
NumWorkers == 2       \* nworkers of the constructor
NumObjs == 6          \* objects of the modelled heaps
ArrLen == 3           \* length of the long object array of the array heap
MaxStride == 2        \* ObjArrayMarkingStride ranges over 1..MaxStride
QueueCap == 2         \* capacity of a queue's local part, before it overflows
GranuleSlots == 2     \* object alignment slots per granule
SampleSpread == 2     \* the int samples lie within SampleSpread of 0, 2^30 and 2^31 - 1

NULL == 0
Workers == 1..NumWorkers
Oop == 1..NumObjs
Ref == Oop \cup {NULL}

\* The four root collaborators, in the order object_iterate_inner uses them.
RootsStrong == 1
RootsConcurrentStrong == 2
RootsWeak == 3
RootsConcurrentWeak == 4
Collaborators == {RootsStrong, RootsConcurrentStrong, RootsWeak, RootsConcurrentWeak}

\* ------------------------------------------------------------------- heaps
\* A plain object without references.
Plain == [isArr |-> FALSE, klass |-> NULL, fields |-> << >>, referent |-> NULL, elems |-> << >>]

\* Element i of the long array: objects 2 and 3 and null slots, in turn.
LongArrayElem(i) == IF i % 3 = 1 THEN 2 ELSE IF i % 3 = 2 THEN NULL ELSE 3

\* A cyclic graph without arrays: a target (3) shared by 1 and 2 that refers
\* back to 1 and is a Reference object with referent 4, an object only a weak
\* root holds (5), an unreachable object (6), a null root slot and a null field.
HeapGraph ==
  [objs |-> [o \in Oop |->
       IF o = 1 THEN [Plain EXCEPT !.fields = <<3>>]
       ELSE IF o = 2 THEN [Plain EXCEPT !.fields = <<3, NULL>>]
       ELSE IF o = 3 THEN [Plain EXCEPT !.fields = <<1>>, !.referent = 4]
       ELSE Plain],
   roots |-> [c \in Collaborators |->
       IF c = RootsStrong THEN <<1, 2>>
       ELSE IF c = RootsConcurrentStrong THEN <<NULL>>
       ELSE IF c = RootsWeak THEN <<5>>
       ELSE << >>]]

\* A heap without weak roots and referents: an object array (1) of ArrLen
\* elements, a plain object (2) that refers back to it, and an empty object
\* array (3) that only an element of array 1 refers to, with class holder 2.
HeapArray ==
  [objs |-> [o \in Oop |->
       IF o = 1 THEN [Plain EXCEPT !.isArr = TRUE,
                                   !.elems = [i \in 1..ArrLen |-> LongArrayElem(i)]]
       ELSE IF o = 2 THEN [Plain EXCEPT !.fields = <<1>>]
       ELSE IF o = 3 THEN [Plain EXCEPT !.isArr = TRUE, !.klass = 2]
       ELSE Plain],
   roots |-> [c \in Collaborators |->
       IF c = RootsStrong THEN <<1>>
       ELSE << >>]]

Heaps == {HeapGraph, HeapArray}

VARIABLES
  heap,                    \* the object graph and the root slots (never changes)
  visit_weaks,             \* ZHeapIterator::_visit_weaks
  ObjArrayMarkingStride,   \* the stride flag
  pc,                      \* each worker's position in object_iterate
  ret,                     \* where a worker continues after the references it follows
  rootIdx,                 \* the collaborator a worker enumerates
  rootsLeft,               \* per collaborator, the root slots no worker has claimed
  cur,                     \* the object or chunk task a worker holds
  todo,                    \* the references a worker's closure still has to mark_and_push
  bm,                      \* mark_object's local bitmap pointer
  queue, overflow,         \* _queues: local part and overflow stack per worker
  aqueue, aoverflow,       \* _array_queues: local part and overflow stack per worker
  bitmaps,                 \* _bitmaps: granule -> bitmap id (NULL: none)
  bits,                    \* the bits set in each allocated bitmap
  nalloc,                  \* number of bitmaps allocated
  lock,                    \* _bitmaps_lock: its holder, or NULL
  offered,                 \* the terminator's count of workers offering termination
  visited,                 \* history: times the visitor ran on each object
  markRet,                 \* history: mark_object's true and false returns per object
  enumerated,              \* history: the collaborators each worker enumerated
  arith,                   \* the index arithmetic of one follow_array_chunk call on sampled ints
  stolen,                  \* history: what the steal of a worker's current loop round took
  chunkLog                 \* history: the ranges follow_array_chunk followed, in order

vars == <<heap, visit_weaks, ObjArrayMarkingStride, pc, ret, rootIdx, rootsLeft, cur,
          todo, bm, queue, overflow, aqueue, aoverflow, bitmaps, bits, nalloc, lock,
          offered, visited, markRet, enumerated, stolen, chunkLog, arith>>

\* --------------------------------------------------------- pure functions
\* The heap offset of an object, in units of the object alignment.
Offset(obj) == obj - 1

\* The granule of an object: the index ZGranuleMap uses for its offset.
GranuleOf(obj) == Offset(obj) \div GranuleSlots

Granules == {GranuleOf(o) : o \in Oop}

\* object_index: the bit of an object inside its granule's bitmap.
object_index(obj) == Offset(obj) % GranuleSlots

MIN2(a, b) == IF a < b THEN a ELSE b

Tag(k, s) == [i \in 1..Len(s) |-> [k |-> k, r |-> s[i]]]

\* do_klass: the references held by the class metadata of an object.
KlassRefs(h, obj) == IF h.objs[obj].klass = NULL THEN << >> ELSE Tag("klass", <<h.objs[obj].klass>>)

\* Faulty variant: the referent is followed whatever VisitReferents is.
ReferentRefs_always(h, obj, VisitReferents) ==
  IF h.objs[obj].referent # NULL
  THEN Tag("referent", <<h.objs[obj].referent>>) ELSE << >>

\* reference_iteration_mode: DO_FIELDS follows the referent like a field,
\* DO_FIELDS_EXCEPT_REFERENT leaves it out.
ReferentRefs(h, obj, VisitReferents) ==
  IF VisitReferents /\ h.objs[obj].referent # NULL
  THEN Tag("referent", <<h.objs[obj].referent>>) ELSE << >>

\* follow_object: what oop_iterate hands to the closure for a non-array object.
FollowRefs(h, obj, VisitReferents) ==
  KlassRefs(h, obj) \o Tag("field", h.objs[obj].fields) \o ReferentRefs(h, obj, VisitReferents)

length(h, obj) == Len(h.objs[obj].elems)

\* The largest int (32 bits, two's complement).
Int32Max == 2^30 + (2^30 - 1)

\* Wide integers, for results that may leave the range of int: the value
\* hi * 2^16 + lo with lo in 0..2^16 - 1.
Wide(hi, lo) == [hi |-> hi + (lo \div 2^16), lo |-> lo % 2^16]
ToWide(n) == Wide(0, n)
FromWide(a) == a.hi * 2^16 + a.lo
WideAdd(a, b) == Wide(a.hi + b.hi, a.lo + b.lo)
WideSub(a, b) == Wide(a.hi - b.hi, a.lo - b.lo)
WideLess(a, b) == a.hi < b.hi \/ (a.hi = b.hi /\ a.lo < b.lo)
WideMin(a, b) == IF WideLess(a, b) THEN a ELSE b

\* The wide integer lies in the range of int.
InInt32(a) == a.hi \in (-(2^15))..(2^15 - 1)

\* The value an int holds after an arithmetic result or a conversion: the
\* low 32 bits, as a signed number.
Int32(a) == [hi |-> ((a.hi + 2^15) % 2^16) - 2^15, lo |-> a.lo]

\* follow_array_chunk: stride = MIN2<int>(length - start, ObjArrayMarkingStride).
ChunkStride(len, start, marking_stride) ==
  WideMin(Int32(WideSub(ToWide(len), ToWide(start))), Int32(ToWide(marking_stride)))

\* Faulty variant: the chunk's end is computed without its start.
ChunkEnd_nostart(len, start, marking_stride) == MIN2(len, marking_stride)

\* Faulty variant: the end is computed as MIN2(length, start + stride) in int.
ChunkEnd_minlast(len, start, marking_stride) ==
  FromWide(WideMin(ToWide(len),
                   Int32(WideAdd(ToWide(start), Int32(ToWide(marking_stride))))))

\* follow_array_chunk: the end of the chunk that starts at start.
ChunkEnd(len, start, marking_stride) ==
  FromWide(Int32(WideAdd(ToWide(start), ChunkStride(len, start, marking_stride))))

\* oop_iterate_range: the elements [start, end) of an array (0-based indices).
RangeRefs(h, obj, start, end) ==
  Tag("elem", [i \in 1..(end - start) |-> h.objs[obj].elems[start + i]])

NoItem == [kind |-> "none", obj |-> NULL, index |-> 0]

\* ------------------------------------------------------------ task queues
\* OverflowTaskQueue::push: the local part while it has room, else the overflow stack.
PushLocal(q, item) == IF Len(q) < QueueCap THEN Append(q, item) ELSE q
PushOverflow(q, ov, item) == IF Len(q) < QueueCap THEN ov ELSE Append(ov, item)

\* pop_overflow(obj) || pop_local(obj): the overflow stack first, both LIFO.
CanPop(q, ov) == q # << >> \/ ov # << >>
Popped(q, ov) == IF ov # << >> THEN ov[Len(ov)] ELSE q[Len(q)]
PopLocal(q, ov) == IF ov # << >> THEN q ELSE SubSeq(q, 1, Len(q) - 1)
PopOverflow(q, ov) == IF ov # << >> THEN SubSeq(ov, 1, Len(ov) - 1) ELSE ov

\* Faulty variant: is_drained looks at the local parts only, not at the overflow stacks.
is_drained_local_only(w) == queue[w] = << >> /\ aqueue[w] = << >>

\* Faulty variant: is_drained looks at the object queue only.
is_drained_objects_only(w) == queue[w] = << >> /\ overflow[w] = << >>

\* is_drained: both queues of the worker are empty, overflow stacks included.
is_drained(w) ==
  /\ queue[w] = << >> /\ overflow[w] = << >>
  /\ aqueue[w] = << >> /\ aoverflow[w] = << >>

\* Faulty variant: the terminator watches the array queues as well.
TerminatorQueueSet_both(v) == queue[v] \o aqueue[v]

\* The queue set handed to the terminator's constructor: _queues, and not
\* _array_queues.
TerminatorQueueSet(v) == queue[v]

\* The terminator's test for pending work: a task in a queue of its queue set.
TasksInQueueSet == \E v \in Workers : TerminatorQueueSet(v) # << >>

\* Faulty variant: the weak collaborators are enumerated whatever VisitWeaks is.
LastCollaborator_always_weak == RootsConcurrentWeak

\* Faulty variant: the weak collaborators are never enumerated.
LastCollaborator_never_weak == RootsConcurrentStrong

\* The last collaborator object_iterate_inner enumerates.
LastCollaborator == IF visit_weaks THEN RootsConcurrentWeak ELSE RootsConcurrentStrong

\* -------------------------------------------------------------------- Init
\* No follow_array_chunk call is singled out for its arithmetic.
ArithIdle ==
  [stage |-> "idle", length |-> 0, start |-> 0, diff |-> ToWide(0), sum |-> ToWide(0),
   end |-> 0]

\* The state of the workers, queues and bitmaps after construction.
InitIterator ==
  /\ pc = [w \in Workers |-> "roots"]
  /\ ret = [w \in Workers |-> "roots"]
  /\ rootIdx = [w \in Workers |-> RootsStrong]
  /\ rootsLeft = [c \in Collaborators |-> DOMAIN heap.roots[c]]
  /\ cur = [w \in Workers |-> NoItem]
  /\ todo = [w \in Workers |-> << >>]
  /\ bm = [w \in Workers |-> NULL]
  /\ queue = [w \in Workers |-> << >>]
  /\ overflow = [w \in Workers |-> << >>]
  /\ aqueue = [w \in Workers |-> << >>]
  /\ aoverflow = [w \in Workers |-> << >>]
  /\ bitmaps = [g \in Granules |-> NULL]
  /\ bits = << >>
  /\ nalloc = 0
  /\ lock = NULL
  /\ offered = 0
  /\ visited = [o \in Oop |-> 0]
  /\ markRet = [o \in Oop |-> [t |-> 0, f |-> 0]]
  /\ enumerated = [w \in Workers |-> {}]
  /\ stolen = [w \in Workers |-> "none"]
  /\ chunkLog = << >>

\* The traversals modelled: the stride takes every value on the heap that has
\* arrays, visit_weaks both values on the heap that has weak roots and a referent.
Init ==
  /\ heap \in Heaps
  /\ visit_weaks \in BOOLEAN
  /\ ObjArrayMarkingStride \in 1..MaxStride
  /\ heap = HeapGraph => ObjArrayMarkingStride = 1
  /\ heap = HeapArray => ~visit_weaks
  /\ arith = ArithIdle
  /\ InitIterator

\* Variable groups, for UNCHANGED.
config == <<heap, visit_weaks, ObjArrayMarkingStride, arith>>
objQueues == <<queue, overflow>>
arrQueues == <<aqueue, aoverflow>>
marks == <<bitmaps, bits, nalloc, lock, bm>>
rootState == <<rootIdx, rootsLeft, enumerated>>

\* A closure call returned: on to the next reference, or back to the caller
\* once the closure has seen them all.  t: the references left, c: the item held.
Return(w, t, c) ==
  /\ todo' = [todo EXCEPT ![w] = t]
  /\ IF t # << >>
     THEN pc' = [pc EXCEPT ![w] = "mark"] /\ cur' = [cur EXCEPT ![w] = c]
     ELSE IF c.kind = "array"
     THEN pc' = [pc EXCEPT ![w] = "push_array"] /\ cur' = [cur EXCEPT ![w] = c]
     ELSE pc' = [pc EXCEPT ![w] = ret[w]] /\ cur' = [cur EXCEPT ![w] = NoItem]

\* ------------------------------------------------------------------ roots
\* push_roots: the worker claims one root slot of the collaborator it is at
\* and hands the reference loaded from it to mark_and_push.
PushRoots(w) ==
  /\ pc[w] = "roots"
  /\ \E s \in rootsLeft[rootIdx[w]] :
       /\ rootsLeft' = [rootsLeft EXCEPT ![rootIdx[w]] = @ \ {s}]
       /\ todo' = [todo EXCEPT ![w] = Tag("root", <<heap.roots[rootIdx[w]][s]>>)]
  /\ enumerated' = [enumerated EXCEPT ![w] = @ \cup {rootIdx[w]}]
  /\ pc' = [pc EXCEPT ![w] = "mark"]
  /\ ret' = [ret EXCEPT ![w] = "roots"]
  /\ UNCHANGED <<config, stolen, rootIdx, cur, objQueues, arrQueues, marks, offered, visited,
                 markRet, chunkLog>>

\* oops_do returns, the collaborator has no unclaimed slot left: on to the
\* next push_roots, or after the last one to drain_and_steal.
RootsNext(w) ==
  /\ pc[w] = "roots"
  /\ rootsLeft[rootIdx[w]] = {}
  /\ enumerated' = [enumerated EXCEPT ![w] = @ \cup {rootIdx[w]}]
  /\ IF rootIdx[w] < LastCollaborator
     THEN rootIdx' = [rootIdx EXCEPT ![w] = @ + 1] /\ UNCHANGED pc
     ELSE pc' = [pc EXCEPT ![w] = "drain"] /\ UNCHANGED rootIdx
  /\ UNCHANGED <<config, stolen, ret, rootsLeft, cur, todo, objQueues, arrQueues, marks,
                 offered, visited, markRet, chunkLog>>

\* ------------------------------------------------------------ mark_object
\* Faulty variant: mark_object reports a null reference as newly marked.
mark_object_null_true(obj) == obj = NULL

\* mark_object's result for a null reference: false.
mark_object_null(obj) == FALSE

\* mark_object on a null reference returns at once, before any bitmap lookup;
\* mark_and_push pushes only on a true result.
MarkNull(w) ==
  /\ pc[w] = "mark"
  /\ Head(todo[w]).r = NULL
  /\ IF mark_object_null(Head(todo[w]).r)
     THEN pc' = [pc EXCEPT ![w] = "push"] /\ UNCHANGED <<todo, cur>>
     ELSE Return(w, Tail(todo[w]), cur[w])
  /\ UNCHANGED <<config, stolen, ret, rootState, objQueues, arrQueues, marks, offered, visited,
                 markRet, chunkLog>>

\* object_bitmap: the lock-free get_acquire of the granule's entry.
MarkLookup(w) ==
  /\ pc[w] = "mark"
  /\ Head(todo[w]).r # NULL
  /\ LET b == bitmaps[GranuleOf(Head(todo[w]).r)] IN
       /\ bm' = [bm EXCEPT ![w] = b]
       /\ pc' = [pc EXCEPT ![w] = IF b = NULL THEN "mark_lock" ELSE "mark_set"]
  /\ UNCHANGED <<config, stolen, ret, rootState, cur, todo, objQueues, arrQueues, bitmaps, bits,
                 nalloc, lock, offered, visited, markRet, chunkLog>>

\* object_bitmap: ZLocker takes _bitmaps_lock.
MarkLock(w) ==
  /\ pc[w] = "mark_lock"
  /\ lock = NULL
  /\ lock' = w
  /\ pc' = [pc EXCEPT ![w] = "mark_install"]
  /\ UNCHANGED <<config, stolen, ret, rootState, cur, todo, objQueues, arrQueues, bitmaps, bits,
                 nalloc, bm, offered, visited, markRet, chunkLog>>

\* Faulty variant: no re-check under the lock, a bitmap is installed every time.
MustInstall_norecheck(b) == TRUE

\* The re-check under the lock: install only if the entry is still empty.
MustInstall(b) == b = NULL

\* Faulty variant: the lock is not released when object_bitmap returns.
ReleasedLock_held(w) == w

\* The ZLocker goes out of scope: the lock is free again.
ReleasedLock(w) == NULL

\* Faulty variant: the re-check tests the pointer read before the lock was taken.
RecheckedEntry_stale(w, g) == bm[w]

\* The entry read again under the lock: bitmap = _bitmaps.get(offset).
RecheckedEntry(w, g) == bitmaps[g]

\* object_bitmap under the lock: get, install a new bitmap if there is none,
\* release the lock.
MarkInstall(w) ==
  /\ pc[w] = "mark_install"
  /\ lock = w
  /\ LET g == GranuleOf(Head(todo[w]).r) IN
       IF MustInstall(RecheckedEntry(w, g))
       THEN /\ nalloc' = nalloc + 1
            /\ bits' = Append(bits, {})
            /\ bitmaps' = [bitmaps EXCEPT ![g] = nalloc + 1]
            /\ bm' = [bm EXCEPT ![w] = nalloc + 1]
       ELSE /\ bm' = [bm EXCEPT ![w] = bitmaps[g]]
            /\ UNCHANGED <<nalloc, bits, bitmaps>>
  /\ lock' = ReleasedLock(w)
  /\ pc' = [pc EXCEPT ![w] = "mark_set"]
  /\ UNCHANGED <<config, stolen, ret, rootState, cur, todo, objQueues, arrQueues, offered,
                 visited, markRet, chunkLog>>

\* Faulty variant: the bit set reports success whether or not the bit was already set.
try_set_bit_always(bitset, index) == TRUE

\* par_set_bit: true iff this call changed the bit from clear to set.
try_set_bit(bitset, index) == index \notin bitset

\* Faulty variant: mark_and_push pushes whatever mark_object returned.
PushesOn_any(marked) == TRUE

\* mark_and_push: the object is pushed if mark_object returned true.
PushesOn(marked) == marked

\* mark_object: the atomic bit set; false ends mark_and_push.
MarkSetBit(w) ==
  /\ pc[w] = "mark_set"
  /\ LET obj == Head(todo[w]).r
         marked == try_set_bit(bits[bm[w]], object_index(obj))
     IN /\ bits' = [bits EXCEPT ![bm[w]] = @ \cup {object_index(obj)}]
        /\ markRet' = IF marked THEN [markRet EXCEPT ![obj].t = @ + 1]
                                ELSE [markRet EXCEPT ![obj].f = @ + 1]
        /\ IF PushesOn(marked)
           THEN pc' = [pc EXCEPT ![w] = "push"] /\ UNCHANGED <<todo, cur>>
           ELSE Return(w, Tail(todo[w]), cur[w])
  /\ UNCHANGED <<config, stolen, ret, rootState, objQueues, arrQueues, bitmaps, nalloc, lock, bm,
                 offered, visited, chunkLog>>

\* mark_and_push: mark_object returned true, the object goes on the worker's
\* own object queue.
MarkPush(w) ==
  /\ pc[w] = "push"
  /\ queue' = [queue EXCEPT ![w] = PushLocal(@, Head(todo[w]).r)]
  /\ overflow' = [overflow EXCEPT ![w] = PushOverflow(queue[w], @, Head(todo[w]).r)]
  /\ Return(w, Tail(todo[w]), cur[w])
  /\ UNCHANGED <<config, stolen, ret, rootState, arrQueues, marks, offered, visited, markRet,
                 chunkLog>>

\* ----------------------------------------------------- visit and follow
\* visit_and_follow up to its first closure call: the visitor runs on obj,
\* then the closure gets the class references of an array, or the class
\* references and fields of another object.
VisitAndFollow(w, obj, r) ==
  /\ visited' = [visited EXCEPT ![obj] = @ + 1]
  /\ ret' = [ret EXCEPT ![w] = r]
  /\ IF heap.objs[obj].isArr
     THEN Return(w, KlassRefs(heap, obj), [kind |-> "array", obj |-> obj, index |-> 0])
     ELSE LET t == FollowRefs(heap, obj, visit_weaks) IN
          /\ todo' = [todo EXCEPT ![w] = t]
          /\ cur' = [cur EXCEPT ![w] = IF t = << >> THEN NoItem
                                        ELSE [kind |-> "obj", obj |-> obj, index |-> 0]]
          /\ pc' = [pc EXCEPT ![w] = IF t = << >> THEN r ELSE "mark"]

\* follow_array: push the first chunk task of the array.
PushArray(w) ==
  /\ pc[w] = "push_array"
  /\ LET task == [obj |-> cur[w].obj, index |-> 0] IN
       /\ aqueue' = [aqueue EXCEPT ![w] = PushLocal(@, task)]
       /\ aoverflow' = [aoverflow EXCEPT ![w] = PushOverflow(aqueue[w], @, task)]
  /\ cur' = [cur EXCEPT ![w] = NoItem]
  /\ pc' = [pc EXCEPT ![w] = ret[w]]
  /\ UNCHANGED <<config, stolen, ret, rootState, todo, objQueues, marks, offered, visited,
                 markRet, chunkLog>>

\* Faulty variant: the remainder test is off by one and drops a last chunk of one element.
HasRemainder_offbyone(end, len) == end + 1 < len

\* Faulty variant: the remainder test is inverted and never pushes a remainder.
HasRemainder_inverted(end, len) == end > len

\* Faulty variant: the remainder test is inclusive and pushes the task (array, length).
HasRemainder_inclusive(end, len) == end <= len

\* follow_array_chunk: whether a remainder task is pushed.
HasRemainder(end, len) == end < len

\* Faulty variant: the remainder task is given the chunk's start, not its end.
RemainderTask_start(obj, start, end) == [obj |-> obj, index |-> start]

\* follow_array_chunk: the remainder task, ObjArrayTask(obj, end).
RemainderTask(obj, start, end) == [obj |-> obj, index |-> end]

\* follow_array_chunk: compute the chunk's end, push the remainder first,
\* then hand the elements [start, end) to the closure.
FollowArrayChunk(w) ==
  /\ pc[w] = "chunk"
  /\ LET obj == cur[w].obj
         start == cur[w].index
         end == ChunkEnd(length(heap, obj), start, ObjArrayMarkingStride)
         task == RemainderTask(obj, start, end)
     IN /\ IF HasRemainder(end, length(heap, obj))
           THEN /\ aqueue' = [aqueue EXCEPT ![w] = PushLocal(@, task)]
                /\ aoverflow' = [aoverflow EXCEPT ![w] = PushOverflow(aqueue[w], @, task)]
           ELSE UNCHANGED arrQueues
        /\ chunkLog' = Append(chunkLog, [obj |-> obj, start |-> start, end |-> end])
        /\ Return(w, RangeRefs(heap, obj, start, end), cur[w])
  /\ UNCHANGED <<config, stolen, ret, rootState, objQueues, marks, offered, visited, markRet>>

\* ------------------------------------------------------------------ drain
\* drain: pop an object (overflow first) and visit it.
DrainPop(w) ==
  /\ pc[w] = "drain"
  /\ CanPop(queue[w], overflow[w])
  /\ queue' = [queue EXCEPT ![w] = PopLocal(@, overflow[w])]
  /\ overflow' = [overflow EXCEPT ![w] = PopOverflow(queue[w], @)]
  /\ VisitAndFollow(w, Popped(queue[w], overflow[w]), "drain")
  /\ UNCHANGED <<config, stolen, rootState, arrQueues, marks, offered, markRet, chunkLog>>

\* drain: no object left, pop one array chunk task.
DrainPopArray(w) ==
  /\ pc[w] = "drain"
  /\ ~CanPop(queue[w], overflow[w])
  /\ CanPop(aqueue[w], aoverflow[w])
  /\ aqueue' = [aqueue EXCEPT ![w] = PopLocal(@, aoverflow[w])]
  /\ aoverflow' = [aoverflow EXCEPT ![w] = PopOverflow(aqueue[w], @)]
  /\ LET task == Popped(aqueue[w], aoverflow[w]) IN
       cur' = [cur EXCEPT ![w] = [kind |-> "chunk", obj |-> task.obj, index |-> task.index]]
  /\ pc' = [pc EXCEPT ![w] = "chunk"]
  /\ ret' = [ret EXCEPT ![w] = "drain"]
  /\ UNCHANGED <<config, stolen, rootState, todo, objQueues, marks, offered, visited, markRet,
                 chunkLog>>

\* Faulty variant: steal goes for the peers' objects without trying their chunk tasks.
AfterDrain_objects_first == "steal_obj"

\* Faulty variant: the loop body lacks the steal, the loop condition follows drain.
AfterDrain_nosteal == "loop_check"

\* drain_and_steal's loop body: steal follows drain.
AfterDrain == "steal"

\* drain ends once the worker is drained; steal comes next.
DrainDone(w) ==
  /\ pc[w] = "drain"
  /\ is_drained(w)
  /\ pc' = [pc EXCEPT ![w] = AfterDrain]
  /\ UNCHANGED <<config, stolen, ret, rootState, cur, todo, objQueues, arrQueues, marks, offered,
                 visited, markRet, chunkLog>>

\* ------------------------------------------------------------------ steal
\* steal: a chunk task taken from the far end of a peer's array queue.
StealArray(w) ==
  /\ pc[w] = "steal"
  /\ \E v \in Workers \ {w} :
       /\ aqueue[v] # << >>
       /\ aqueue' = [aqueue EXCEPT ![v] = Tail(@)]
       /\ cur' = [cur EXCEPT ![w] = [kind |-> "chunk", obj |-> Head(aqueue[v]).obj,
                                     index |-> Head(aqueue[v]).index]]
  /\ pc' = [pc EXCEPT ![w] = "chunk"]
  /\ ret' = [ret EXCEPT ![w] = "loop_check"]
  /\ stolen' = [stolen EXCEPT ![w] = "array"]
  /\ UNCHANGED <<config, rootState, todo, objQueues, aoverflow, marks, offered, visited,
                 markRet, chunkLog>>

\* steal_array found nothing (no peer has a chunk task, or the attempt lost a race).
StealArrayFail(w) ==
  /\ pc[w] = "steal"
  /\ pc' = [pc EXCEPT ![w] = "steal_obj"]
  /\ UNCHANGED <<config, stolen, ret, rootState, cur, todo, objQueues, arrQueues, marks, offered,
                 visited, markRet, chunkLog>>

\* steal: an object taken from the far end of a peer's object queue, and visited.
StealObj(w) ==
  /\ pc[w] = "steal_obj"
  /\ \E v \in Workers \ {w} :
       /\ queue[v] # << >>
       /\ queue' = [queue EXCEPT ![v] = Tail(@)]
       /\ VisitAndFollow(w, Head(queue[v]), "loop_check")
  /\ stolen' = [stolen EXCEPT ![w] = "obj"]
  /\ UNCHANGED <<config, rootState, overflow, arrQueues, marks, offered, markRet, chunkLog>>

\* steal found nothing at all.
StealObjFail(w) ==
  /\ pc[w] = "steal_obj"
  /\ pc' = [pc EXCEPT ![w] = "loop_check"]
  /\ stolen' = [stolen EXCEPT ![w] = "none"]
  /\ UNCHANGED <<config, ret, rootState, cur, todo, objQueues, arrQueues, marks, offered,
                 visited, markRet, chunkLog>>

\* -------------------------------------------------------- drain_and_steal
\* The loop condition finds the worker not drained: another round.
LoopAgain(w) ==
  /\ pc[w] = "loop_check"
  /\ ~is_drained(w)
  /\ pc' = [pc EXCEPT ![w] = "drain"]
  /\ stolen' = [stolen EXCEPT ![w] = "none"]
  /\ UNCHANGED <<config, ret, rootState, cur, todo, objQueues, arrQueues, marks, offered,
                 visited, markRet, chunkLog>>

\* The worker is drained and calls offer_termination.
OfferTermination(w) ==
  /\ pc[w] = "loop_check"
  /\ is_drained(w)
  /\ offered' = offered + 1
  /\ pc' = [pc EXCEPT ![w] = "offer"]
  /\ UNCHANGED <<config, stolen, ret, rootState, cur, todo, objQueues, arrQueues, marks, visited,
                 markRet, chunkLog>>

\* The terminator's condition for termination: every worker has offered.
AllOffered(n) == n = NumWorkers

\* offer_termination returns true.
OfferTrue(w) ==
  /\ pc[w] = "offer"
  /\ AllOffered(offered)
  /\ pc' = [pc EXCEPT ![w] = "done"]
  /\ UNCHANGED <<config, stolen, ret, rootState, cur, todo, objQueues, arrQueues, marks, offered,
                 visited, markRet, chunkLog>>

\* offer_termination returns false: the terminator saw tasks in its queue set.
OfferFalse(w) ==
  /\ pc[w] = "offer"
  /\ ~AllOffered(offered)
  /\ TasksInQueueSet
  /\ offered' = offered - 1
  /\ pc' = [pc EXCEPT ![w] = "drain"]
  /\ stolen' = [stolen EXCEPT ![w] = "none"]
  /\ UNCHANGED <<config, ret, rootState, cur, todo, objQueues, arrQueues, marks, visited,
                 markRet, chunkLog>>

\* ------------------------------------------------------------------- spec
Step(w) ==
  \/ PushRoots(w) \/ RootsNext(w)
  \/ MarkNull(w) \/ MarkLookup(w) \/ MarkLock(w) \/ MarkInstall(w) \/ MarkSetBit(w)
  \/ MarkPush(w) \/ PushArray(w) \/ FollowArrayChunk(w)
  \/ DrainPop(w) \/ DrainPopArray(w) \/ DrainDone(w)
  \/ StealArray(w) \/ StealArrayFail(w) \/ StealObj(w) \/ StealObjFail(w)
  \/ LoopAgain(w) \/ OfferTermination(w) \/ OfferTrue(w) \/ OfferFalse(w)

Next == \E w \in Workers : Step(w)

Spec == Init /\ [][Next]_vars

\* Every worker thread keeps running: the one way a worker waits is inside
\* offer_termination, which has no step while neither result is decided.
FairSpec == Spec /\ \A w \in Workers : WF_vars(Step(w))

\* ------------------------------------------------- chunk index arithmetic
\* The ints sampled for length, start and the stride flag: near 0, near 2^30
\* and near the largest int.
IntSamples ==
  (0..SampleSpread) \cup ((2^30 - SampleSpread)..(2^30 + SampleSpread))
     \cup {Int32Max - i : i \in 0..SampleSpread}

\* One chunk task (array, start) of an array of the sampled length, under a
\* sampled stride flag; the iterator itself stays as constructed.
ArithInit ==
  /\ heap = HeapArray
  /\ visit_weaks = FALSE
  /\ ObjArrayMarkingStride \in IntSamples \ {0}
  /\ \E len \in IntSamples : \E start \in {x \in IntSamples : x <= len} :
       arith = [ArithIdle EXCEPT !.stage = "task", !.length = len, !.start = start]
  /\ InitIterator

\* follow_array_chunk's arithmetic on the task: diff and sum are the values
\* of length - start and start + stride, wide, before they are stored in an int.
FollowArrayChunkArith ==
  /\ arith.stage = "task"
  /\ arith' = [arith EXCEPT
                 !.stage = "end",
                 !.diff = WideSub(ToWide(arith.length), ToWide(arith.start)),
                 !.sum = WideAdd(ToWide(arith.start),
                                 ChunkStride(arith.length, arith.start, ObjArrayMarkingStride)),
                 !.end = ChunkEnd(arith.length, arith.start, ObjArrayMarkingStride)]
  /\ UNCHANGED <<heap, visit_weaks, ObjArrayMarkingStride, pc, ret, rootState, cur, todo,
                 objQueues, arrQueues, marks, offered, visited, markRet, stolen, chunkLog>>

ArithNext == FollowArrayChunkArith

ArithSpec == ArithInit /\ [][ArithNext]_vars

\* ----------------------------------------------------------- reachability
\* The references an object holds: class metadata, fields, array elements,
\* and the referent when weak references are visited.
Edges(h, o, weak) ==
  ({h.objs[o].klass} \cup {h.objs[o].fields[i] : i \in DOMAIN h.objs[o].fields}
     \cup {h.objs[o].elems[i] : i \in DOMAIN h.objs[o].elems}
     \cup (IF weak THEN {h.objs[o].referent} ELSE {})) \ {NULL}

RootSet(h, weak) ==
  UNION {{h.roots[c][i] : i \in DOMAIN h.roots[c]} :
           c \in (IF weak THEN Collaborators ELSE {RootsStrong, RootsConcurrentStrong})} \ {NULL}

RECURSIVE Closure(_, _, _)
Closure(h, weak, S) ==
  LET T == S \cup UNION {Edges(h, o, weak) : o \in S}
  IN IF T = S THEN S ELSE Closure(h, weak, T)

\* Per heap, the objects reachable from the strong roots, and from all roots
\* with referents followed.
ReachTable == [h \in Heaps |-> [weak \in BOOLEAN |-> Closure(h, weak, RootSet(h, weak))]]

\* The objects reachable from the enumerated roots.
Reachable == ReachTable[heap][visit_weaks]

\* The object's bit is set in the bitmap installed for its granule.
IsMarked(o) ==
  /\ bitmaps[GranuleOf(o)] # NULL
  /\ object_index(o) \in bits[bitmaps[GranuleOf(o)]]

InSeq(x, q) == \E i \in DOMAIN q : q[i] = x

\* The object is in some worker's object queue.
IsQueued(o) == \E w \in Workers : InSeq(o, queue[w]) \/ InSeq(o, overflow[w])

AllDone == \A w \in Workers : pc[w] = "done"

\* The worker is still in push_roots.
InRoots(w) ==
  \/ pc[w] = "roots"
  \/ ret[w] = "roots" /\ pc[w] \in {"mark", "mark_lock", "mark_install", "mark_set", "push"}

\* ------------------------------------------------------------------ claims
\* C1: in every reachable state the visitor has run at most once on each
\* object, whatever the graph and the interleaving of mark, push, pop and
\* steal steps.
C1_VisitedAtMostOnce == \A o \in Oop : visited[o] <= 1

\* A visited object for which some other mark_object call lost the race.
C1_Witness == \E o \in Oop : visited[o] = 1 /\ markRet[o].f >= 1 /\ \E w \in Workers : pc[w] = "done"

\* C2: once every worker has left drain_and_steal, every object reachable
\* from the enumerated roots (weak roots and referents counted only when
\* weak references are visited) has been visited.
C2_AllReachableVisited == AllDone => \A o \in Reachable : visited[o] >= 1

\* A finished traversal that visited objects reached only through array elements.
C2_Witness == AllDone /\ Cardinality(Reachable) >= 3 /\ Len(chunkLog) >= 3

\* C3: in every reachable state every object that is marked, queued or
\* visited is reachable from the enumerated roots.
C3_OnlyReachableTouched ==
  \A o \in Oop \ Reachable :
    ~IsMarked(o) /\ ~IsQueued(o) /\ visited[o] = 0 /\ markRet[o].t = 0
      /\ \A w \in Workers : cur[w].obj # o

\* A finished traversal that left unreachable objects alone, among them one
\* that a weak root or a referent field holds.
C3_Witness ==
  /\ AllDone
  /\ ~visit_weaks
  /\ \E o \in Oop \ Reachable : o \in ReachTable[heap][TRUE]
  /\ \E o \in Oop : visited[o] = 1

\* C4: of the mark_object calls made on one reference, exactly one returns
\* true and every other returns false, however the lookup, the re-check under
\* the lock, the installation and the bit set interleave.
C4_ExactlyOneMarkTrue ==
  \A o \in Oop :
    /\ markRet[o].t <= 1
    /\ markRet[o].t + markRet[o].f > 0 => markRet[o].t = 1
    /\ markRet[o].t = 1 <=> IsMarked(o)

\* A race on the first touch of a granule: a worker saw no bitmap and holds
\* the lock for the re-check, while a peer's call on the same reference
\* has installed the bitmap and returned true.
C4_Witness ==
  \E w \in Workers :
    /\ pc[w] = "mark_install"
    /\ bitmaps[GranuleOf(Head(todo[w]).r)] # NULL
    /\ markRet[Head(todo[w]).r].t = 1

\* C5: no worker has finished drain_and_steal while some worker's queue is
\* non-empty or some worker holds an item it has not fully processed.
C5_TerminationSound ==
  (\E w \in Workers : pc[w] = "done") =>
     \A v \in Workers :
       /\ queue[v] = << >> /\ overflow[v] = << >>
       /\ aqueue[v] = << >> /\ aoverflow[v] = << >>
       /\ cur[v] = NoItem /\ todo[v] = << >>
       /\ pc[v] \in {"offer", "done"}

\* One worker is done while a peer is still inside the offer, after objects were visited.
C5_Witness ==
  /\ \E w, v \in Workers : pc[w] = "done" /\ pc[v] = "offer"
  /\ \E o \in Oop : visited[o] = 1

\* C6: under fair scheduling of every worker, every worker eventually leaves
\* drain_and_steal.
C6_Terminates == <>AllDone

\* A finished traversal in which array chunks were followed.
C6_Witness == AllDone /\ Len(chunkLog) >= 2 /\ \A o \in Reachable : visited[o] = 1

\* C7: the chunks followed for an array start at 0, have strictly increasing
\* starts, each begins where the one before ended, no two of them overlap, and
\* once the traversal is over they cover exactly [0, length): every element
\* index is followed exactly once, whoever pops or steals the chunk tasks.
C7_ChunksPartition ==
  /\ \A i \in DOMAIN chunkLog :
       LET e == chunkLog[i]
           Earlier == {j \in 1..(i - 1) : chunkLog[j].obj = e.obj}
       IN /\ heap.objs[e.obj].isArr
          /\ 0 <= e.start /\ e.start <= e.end /\ e.end <= length(heap, e.obj)
          /\ e.end = e.start => length(heap, e.obj) = 0
          /\ \A j \in Earlier : chunkLog[j].start < e.start /\ chunkLog[j].end <= e.start
          /\ IF Earlier = {} THEN e.start = 0
             ELSE \E j \in Earlier : chunkLog[j].end = e.start
  /\ AllDone =>
       \A a \in Oop :
         (heap.objs[a].isArr /\ visited[a] = 1) =>
            \A idx \in 0..(length(heap, a) - 1) :
              Cardinality({i \in DOMAIN chunkLog :
                             /\ chunkLog[i].obj = a
                             /\ chunkLog[i].start <= idx /\ idx < chunkLog[i].end}) = 1
  /\ AllDone =>
       \A a \in Oop :
         (heap.objs[a].isArr /\ visited[a] = 1) => \E i \in DOMAIN chunkLog : chunkLog[i].obj = a

\* The chunks of an array of several chunks have all been taken, and a worker is
\* following the last one, which it stole from the peer that pushed it.
C7_Witness ==
  \E w \in Workers : \E i, j \in DOMAIN chunkLog :
    /\ cur[w].kind = "chunk" /\ pc[w] = "mark" /\ ret[w] = "loop_check"
    /\ i < j
    /\ chunkLog[i].obj = cur[w].obj /\ chunkLog[j].obj = cur[w].obj
    /\ chunkLog[j].start = cur[w].index
    /\ chunkLog[j].end = length(heap, cur[w].obj)

\* The collaborators a worker has to enumerate.
ExpectedCollaborators ==
  IF visit_weaks THEN Collaborators ELSE {RootsStrong, RootsConcurrentStrong}

\* C8: without weak visiting no worker enumerates a weak collaborator, no slot
\* of one is claimed and an object only weak roots hold is never marked or
\* visited; with it every worker enumerates all four.  Both strong collaborators
\* are always enumerated, and a worker past push_roots has enumerated all it
\* ever will.
C8_WeakRootGating ==
  /\ \A w \in Workers :
       /\ enumerated[w] \subseteq ExpectedCollaborators
       /\ ~InRoots(w) => enumerated[w] = ExpectedCollaborators
  /\ ~visit_weaks =>
       /\ \A c \in {RootsWeak, RootsConcurrentWeak} : rootsLeft[c] = DOMAIN heap.roots[c]
       /\ \A o \in RootSet(heap, TRUE) \ Reachable : ~IsMarked(o) /\ visited[o] = 0

\* A finished traversal without weak visiting over a heap whose weak roots
\* hold objects nothing else reaches.
C8_Witness ==
  /\ AllDone
  /\ ~visit_weaks
  /\ RootSet(heap, TRUE) \ Reachable # {}
  /\ \A w \in Workers : enumerated[w] = {RootsStrong, RootsConcurrentStrong}

\* C9: without weak visiting no closure is ever handed a referent field and an
\* object reached only through referent fields is never marked or visited; with
\* it, once a non-array object has been followed its referent is marked.
C9_ReferentGating ==
  /\ ~visit_weaks =>
       /\ \A w \in Workers : \A i \in DOMAIN todo[w] : todo[w][i].k # "referent"
       /\ \A o \in Oop : \A p \in Oop \ Reachable :
            heap.objs[o].referent = p => ~IsMarked(p) /\ visited[p] = 0
  /\ visit_weaks =>
       \A o \in Oop :
         (/\ visited[o] >= 1
          /\ ~heap.objs[o].isArr
          /\ heap.objs[o].referent # NULL
          /\ \A w \in Workers : cur[w].obj # o) => IsMarked(heap.objs[o].referent)

\* A finished traversal without weak visiting that visited a Reference object
\* and left its referent unmarked.
C9_Witness ==
  /\ AllDone
  /\ ~visit_weaks
  /\ \E o \in Oop : /\ visited[o] = 1
                    /\ heap.objs[o].referent # NULL
                    /\ ~IsMarked(heap.objs[o].referent)

\* C10: the step that processes a chunk task whose start equals the array
\* length follows no element, marks and pushes nothing, pushes no further
\* chunk task and leaves the queues as they were.
C10_EmptyChunkNoEffect ==
  [][\A w \in Workers :
       (/\ pc[w] = "chunk"
        /\ pc'[w] # "chunk"
        /\ cur[w].index = length(heap, cur[w].obj)) =>
          /\ todo'[w] = << >>
          /\ pc'[w] = ret[w]
          /\ queue' = queue /\ overflow' = overflow
          /\ aqueue' = aqueue /\ aoverflow' = aoverflow
          /\ bitmaps' = bitmaps /\ bits' = bits /\ markRet' = markRet
          /\ chunkLog' = Append(chunkLog, [obj |-> cur[w].obj, start |-> cur[w].index,
                                           end |-> cur[w].index])]_vars

\* The chunk task (array, 0) of an empty array has been processed.
C10_Witness ==
  \E i \in DOMAIN chunkLog :
    /\ chunkLog[i].start = length(heap, chunkLog[i].obj)
    /\ chunkLog[i].end = chunkLog[i].start

\* C11: a mark_and_push call on a null reference (a null root slot, field or
\* array element) returns without a bitmap lookup or allocation, without
\* taking the lock, without setting a bit and without pushing: the worker goes
\* straight on to its next reference, and no queue ever holds a null reference.
C11_NullMarkNoEffect ==
  [][\A w \in Workers :
       (/\ pc[w] = "mark"
        /\ Head(todo[w]).r = NULL
        /\ <<pc[w], todo[w]>>' # <<pc[w], todo[w]>>) =>
          /\ todo'[w] = Tail(todo[w])
          /\ pc'[w] \notin {"push", "mark_lock", "mark_install", "mark_set"}
          /\ bitmaps' = bitmaps /\ bits' = bits /\ nalloc' = nalloc
          /\ lock' = lock /\ bm' = bm /\ markRet' = markRet
          /\ queue' = queue /\ overflow' = overflow
          /\ aqueue' = aqueue /\ aoverflow' = aoverflow
          /\ \A v \in Workers : ~InSeq(NULL, queue'[v]) /\ ~InSeq(NULL, overflow'[v])]_vars

\* A finished traversal of the heap with a null root slot and a null field: both
\* were handed to mark_and_push, the slot claimed and the field's holder visited.
C11_Witness ==
  /\ AllDone
  /\ \E c \in Collaborators : \E i \in DOMAIN heap.roots[c] :
       heap.roots[c][i] = NULL /\ i \notin rootsLeft[c]
  /\ \E o \in Oop : visited[o] = 1 /\ InSeq(NULL, heap.objs[o].fields)

\* C12 as stated: a worker is inside the termination offer only if the steal
\* attempt of its current loop round took nothing.
C12_OfferOnlyAfterFailedSteal == \A w \in Workers : pc[w] = "offer" => stolen[w] = "none"

\* C12, amended: a worker calls offer_termination only from the loop condition
\* and only with both queues empty and no item in hand; it reaches the loop
\* condition only out of steal, either with nothing stolen or with the stolen
\* item fully processed, and goes from there to another drain and steal only
\* when it is not drained.  A successful steal does not keep it from offering.
C12_OfferAfterStealRound ==
  [][\A w \in Workers :
       /\ (pc'[w] = "offer" /\ pc[w] # "offer") =>
            /\ pc[w] = "loop_check"
            /\ queue[w] = << >> /\ overflow[w] = << >>
            /\ aqueue[w] = << >> /\ aoverflow[w] = << >>
            /\ cur[w] = NoItem /\ todo[w] = << >>
       /\ (pc'[w] = "loop_check" /\ pc[w] # "loop_check") =>
            /\ cur'[w] = NoItem /\ todo'[w] = << >>
            /\ \/ pc[w] = "steal_obj"
               \/ stolen[w] # "none" /\ ret[w] = "loop_check"
       /\ (pc[w] = "loop_check" /\ pc'[w] = "drain") =>
            ~(/\ queue[w] = << >> /\ overflow[w] = << >>
              /\ aqueue[w] = << >> /\ aoverflow[w] = << >>)]_vars

\* A worker is inside the termination offer right after a steal that succeeded.
C12_Witness == \E w \in Workers : pc[w] = "offer" /\ stolen[w] # "none"

\* A peer of w holds stealable work of the kinds given.
PeerHasWork(w, objects, chunks) ==
  \E v \in Workers \ {w} : (objects /\ queue[v] # << >>) \/ (chunks /\ aqueue[v] # << >>)

\* C13 as stated: a worker waiting inside the offer can be released with a
\* not-terminated result whenever a peer holds stealable work, an object or a
\* chunk task alike.
C13_ReleasedOnAnyWork ==
  \A w \in Workers :
    (pc[w] = "offer" /\ ~AllOffered(offered) /\ PeerHasWork(w, TRUE, TRUE)) =>
       ENABLED OfferFalse(w)

\* C13, amended: a worker waiting inside the offer can be released with a
\* not-terminated result exactly when a peer has an object in its object
\* queue; chunk tasks in the peers' array queues do not release it.  A worker
\* leaves the offer only to drain again or, terminated, for good.
C13_ReleasedOnObjectWork ==
  [][\A w \in Workers :
       pc[w] = "offer" =>
         /\ ~AllOffered(offered) => (ENABLED OfferFalse(w) <=> PeerHasWork(w, TRUE, FALSE))
         /\ pc'[w] \in {"offer", "drain", "done"}
         /\ pc'[w] = "drain" => PeerHasWork(w, TRUE, FALSE) /\ offered' = offered - 1
         /\ pc'[w] = "done" => AllOffered(offered)]_vars

\* A worker waits inside the offer while a peer holds a chunk task and no
\* object queue holds anything: the waiting worker cannot be released.
C13_Witness ==
  \E w \in Workers :
    /\ pc[w] = "offer" /\ ~AllOffered(offered)
    /\ PeerHasWork(w, FALSE, TRUE) /\ ~PeerHasWork(w, TRUE, FALSE)
    /\ ~ENABLED OfferFalse(w)

\* Both queues of the worker are empty after the step, overflow stacks included.
QueuesEmptyAfter(w) ==
  /\ queue'[w] = << >> /\ overflow'[w] = << >>
  /\ aqueue'[w] = << >> /\ aoverflow'[w] = << >>

\* C14: a worker enters the offer only from the loop condition, and its own
\* queues are empty when it enters and after every step taken while it is
\* inside; an offer that returns false takes it back to drain, which it leaves
\* only for the steal attempt; once a worker's offer has returned true, no
\* queue, bitmap, mark result or visit count changes any more.
C14_OfferWithEmptyQueues ==
  [][\A w \in Workers :
       /\ pc'[w] = "offer" =>
            /\ pc[w] \in {"loop_check", "offer"}
            /\ QueuesEmptyAfter(w)
            /\ cur'[w] = NoItem /\ todo'[w] = << >>
       /\ (pc[w] = "offer" /\ pc'[w] # "offer") => pc'[w] \in {"drain", "done"}
       /\ (pc[w] = "drain" /\ pc'[w] \in {"steal", "steal_obj", "loop_check", "offer", "done"}) =>
            pc'[w] = "steal" /\ QueuesEmptyAfter(w)
       /\ pc[w] = "done" =>
            /\ pc'[w] = "done"
            /\ queue' = queue /\ overflow' = overflow
            /\ aqueue' = aqueue /\ aoverflow' = aoverflow
            /\ bitmaps' = bitmaps /\ bits' = bits /\ markRet' = markRet
            /\ visited' = visited /\ chunkLog' = chunkLog
            /\ cur' = cur /\ todo' = todo]_vars

\* A worker is inside the offer with empty queues while a peer that is still
\* marking holds objects the waiting worker may be released for.
C14_Witness ==
  \E w \in Workers : \E v \in Workers \ {w} :
    /\ pc[w] = "offer" /\ is_drained(w)
    /\ pc[v] \in {"mark", "mark_set", "push"} /\ queue[v] # << >>
    /\ ENABLED OfferFalse(w)

\* C15: the step that starts on a chunk task (array, start) with end < length
\* leaves the remainder task (array, end) on top of the worker's own array
\* queue while every element of [start, end) is still to be followed and no
\* bit or object queue has changed; a peer can steal the remainder and follow
\* a later slice while this worker is still at the earlier one.
C15_RemainderPushedFirst ==
  [][\A w \in Workers :
       (pc[w] = "chunk" /\ pc'[w] # "chunk") =>
          LET obj == cur[w].obj
              start == cur[w].index
              end == MIN2(length(heap, obj), start + ObjArrayMarkingStride)
          IN /\ todo'[w] = RangeRefs(heap, obj, start, end)
             /\ bits' = bits /\ markRet' = markRet
             /\ queue' = queue /\ overflow' = overflow
             /\ IF end < length(heap, obj)
                THEN /\ CanPop(aqueue'[w], aoverflow'[w])
                     /\ Popped(aqueue'[w], aoverflow'[w]) = [obj |-> obj, index |-> end]
                     /\ Len(aqueue'[w]) + Len(aoverflow'[w])
                          = Len(aqueue[w]) + Len(aoverflow[w]) + 1
                     /\ \A v \in Workers \ {w} :
                          aqueue'[v] = aqueue[v] /\ aoverflow'[v] = aoverflow[v]
                ELSE aqueue' = aqueue /\ aoverflow' = aoverflow]_vars

\* A worker is still following the slice [start, end) of an array while a peer
\* that stole the remainder is following a later slice of the same array.
C15_Witness ==
  \E w \in Workers : \E v \in Workers \ {w} :
    /\ cur[w].kind = "chunk" /\ cur[v].kind = "chunk" /\ cur[w].obj = cur[v].obj
    /\ pc[w] = "mark" /\ pc[v] = "mark"
    /\ cur[w].index < cur[v].index
    /\ stolen[v] = "array"

\* C16: a worker is at a steal attempt only out of a drain that left both of
\* its queues empty.  The attempt first goes for one chunk task of a peer: that
\* task is processed as a chunk, and the visitor does not run.  Only after that
\* failed does it go for one object of a peer, which is visited once and followed
\* by its class references and fields, or as an array.  Either way at most one
\* task leaves the peers' queues, and the worker's own queues are not touched.
C16_StealOneArrayFirst ==
  [][\A w \in Workers :
       /\ (pc'[w] = "steal" /\ pc[w] # "steal") => pc[w] = "drain"
       /\ (pc'[w] = "steal_obj" /\ pc[w] # "steal_obj") =>
            pc[w] = "steal" /\ UNCHANGED <<queue, overflow, aqueue, aoverflow, visited, cur>>
       /\ pc[w] \in {"steal", "steal_obj"} =>
            /\ queue[w] = << >> /\ overflow[w] = << >>
            /\ aqueue[w] = << >> /\ aoverflow[w] = << >>
            /\ QueuesEmptyAfter(w)
       /\ (pc[w] = "steal" /\ pc'[w] \notin {"steal", "steal_obj"}) =>
            /\ pc'[w] = "chunk" /\ cur'[w].kind = "chunk"
            /\ \E v \in Workers \ {w} :
                 /\ aqueue[v] # << >>
                 /\ Head(aqueue[v]) = [obj |-> cur'[w].obj, index |-> cur'[w].index]
                 /\ aqueue' = [aqueue EXCEPT ![v] = Tail(aqueue[v])]
            /\ UNCHANGED <<queue, overflow, aoverflow, visited>>
       /\ (pc[w] = "steal_obj" /\ pc'[w] # "steal_obj" /\ stolen'[w] # "none") =>
            /\ \E v \in Workers \ {w} :
                 /\ queue[v] # << >>
                 /\ queue' = [queue EXCEPT ![v] = Tail(queue[v])]
                 /\ visited' = [visited EXCEPT ![Head(queue[v])] = @ + 1]
                 /\ IF heap.objs[Head(queue[v])].isArr
                    THEN /\ todo'[w] = KlassRefs(heap, Head(queue[v]))
                         /\ cur'[w] = [kind |-> "array", obj |-> Head(queue[v]), index |-> 0]
                    ELSE todo'[w] = FollowRefs(heap, Head(queue[v]), visit_weaks)
            /\ UNCHANGED <<overflow, aqueue, aoverflow>>
       /\ (pc[w] = "steal_obj" /\ pc'[w] # "steal_obj" /\ stolen'[w] = "none") =>
            /\ pc'[w] = "loop_check"
            /\ UNCHANGED <<queue, overflow, aqueue, aoverflow, visited, cur, todo>>
       /\ (pc[w] = "chunk" /\ pc'[w] # "chunk") => visited' = visited]_vars

\* A worker follows the elements of a chunk it stole, of an array visited once
\* (by the peer that popped it), while its peer follows an object it stole.
C16_Witness ==
  \E w \in Workers : \E v \in Workers \ {w} :
    /\ stolen[w] = "array" /\ pc[w] = "mark" /\ cur[w].kind = "chunk"
    /\ visited[cur[w].obj] = 1
    /\ stolen[v] = "obj" /\ pc[v] \in {"mark", "mark_set", "push"} /\ cur[v].kind = "obj"

\* Every allocated bitmap is the entry of exactly one granule, and a worker
\* about to set a bit holds the bitmap installed for its reference's granule.
GranuleMapConsistent ==
  /\ Cardinality({g \in Granules : bitmaps[g] # NULL}) = nalloc
  /\ Len(bits) = nalloc
  /\ \A g \in Granules : bitmaps[g] # NULL => bitmaps[g] \in 1..nalloc
  /\ \A g, h \in Granules : (bitmaps[g] # NULL /\ bitmaps[g] = bitmaps[h]) => g = h
  /\ \A w \in Workers :
       pc[w] \in {"mark_set", "push"} => bm[w] = bitmaps[GranuleOf(Head(todo[w]).r)]

\* C17: an entry of the granule map, once a bitmap, stays that bitmap; a step
\* allocates a bitmap only to install it in an entry that was empty, so each
\* granule gets exactly one, however the workers race for its first touch; and
\* a bit set for an object changes only the bitmap installed for its granule.
C17_GranuleMapAppendOnly ==
  [][/\ GranuleMapConsistent'
     /\ \A g \in Granules : bitmaps[g] # NULL => bitmaps'[g] = bitmaps[g]
     /\ nalloc' \in {nalloc, nalloc + 1}
     /\ nalloc' = nalloc + 1 =>
          \E g \in Granules :
            /\ bitmaps[g] = NULL /\ bitmaps'[g] = nalloc + 1
            /\ \A h \in Granules \ {g} : bitmaps'[h] = bitmaps[h]
     /\ \A w \in Workers :
          (pc[w] = "mark_set" /\ pc'[w] # "mark_set" /\ bits' # bits) =>
             LET obj == Head(todo[w]).r
                 b == bitmaps[GranuleOf(obj)]
             IN bits' = [bits EXCEPT ![b] = @ \cup {object_index(obj)}]]_vars

\* A worker that saw an empty entry holds the lock for the re-check of a
\* granule whose bitmap a peer has installed meanwhile; the peer is about to
\* set a bit in that bitmap.
C17_Witness ==
  \E w \in Workers : \E v \in Workers \ {w} :
    /\ pc[w] = "mark_install" /\ bm[w] = NULL
    /\ bitmaps[GranuleOf(Head(todo[w]).r)] # NULL
    /\ pc[v] = "mark_set"
    /\ GranuleOf(Head(todo[v]).r) = GranuleOf(Head(todo[w]).r)
    /\ bm[v] = bitmaps[GranuleOf(Head(todo[w]).r)]

\* min(length, start + STRIDE) in unbounded integers.
UnboundedEnd(len, start, marking_stride) ==
  WideMin(ToWide(len), WideAdd(ToWide(start), ToWide(marking_stride)))

\* C18: for every sampled chunk task with 0 <= start <= length <= 2^31 - 1
\* and stride flag in 1..2^31 - 1, the end that follow_array_chunk computes in
\* int equals min(length, start + STRIDE) computed in unbounded integers, lies
\* in start..length, and neither length - start nor the sum of start and the
\* clamped stride leaves the range of int.
C18_EndWithinInt ==
  arith.stage = "end" =>
    /\ ToWide(arith.end) = UnboundedEnd(arith.length, arith.start, ObjArrayMarkingStride)
    /\ arith.start <= arith.end /\ arith.end <= arith.length
    /\ InInt32(arith.diff) /\ InInt32(arith.sum)
    /\ arith.sum = ToWide(arith.end)

\* The end has been computed for a task whose start + STRIDE exceeds the
\* largest int, and it is the array's length.
C18_Witness ==
  /\ arith.stage = "end"
  /\ ~InInt32(WideAdd(ToWide(arith.start), ToWide(ObjArrayMarkingStride)))
  /\ arith.start < arith.length
  /\ arith.end = arith.length

\* The chunk tasks in a worker's array queue, overflow stack included.
ArrayTasks(w) == aqueue[w] \o aoverflow[w]

\* The workers that hold an array and have its next chunk task still to push:
\* in follow_array before the push of (array, 0), or with a chunk task taken
\* off a queue and not processed yet.
ChunkHolders(a) == {w \in Workers : cur[w].obj = a /\ pc[w] \in {"push_array", "chunk"}}

\* Every pending chunk task is for an array, with start 0 or inside the array,
\* and no array has two of them, nor one while a worker is about to push one.
PendingTasksOK ==
  /\ \A w \in Workers : \A i \in DOMAIN ArrayTasks(w) :
       LET t == ArrayTasks(w)[i] IN
         /\ t.obj \in Oop /\ heap.objs[t.obj].isArr
         /\ t.index = 0 \/ (0 < t.index /\ t.index < length(heap, t.obj))
         /\ ChunkHolders(t.obj) = {}
         /\ \A v \in Workers : \A j \in DOMAIN ArrayTasks(v) :
              ArrayTasks(v)[j].obj = t.obj => (v = w /\ j = i)
  /\ \A w, v \in Workers :
       (pc[w] \in {"push_array", "chunk"} /\ v \in ChunkHolders(cur[w].obj)) => v = w

\* C19: after every step each array has at most one pending chunk task over
\* all array queues, and its start is 0 or lies strictly inside the array.  A
\* step adds a chunk task only to the queue of the worker that takes it, and
\* that task is (array, 0) for the array the worker has just visited, or
\* (array, end) for the chunk (array, start) the worker starts to process.
C19_OnePendingChunk ==
  [][/\ PendingTasksOK'
     /\ \A w \in Workers :
          Len(ArrayTasks(w)') > Len(ArrayTasks(w)) =>
            /\ Len(ArrayTasks(w)') = Len(ArrayTasks(w)) + 1
            /\ \A v \in Workers \ {w} : ArrayTasks(v)' = ArrayTasks(v)
            /\ \/ /\ pc[w] = "push_array" /\ cur[w].kind = "array" /\ visited[cur[w].obj] = 1
                  /\ Popped(aqueue'[w], aoverflow'[w]) = [obj |-> cur[w].obj, index |-> 0]
               \/ /\ pc[w] = "chunk" /\ cur[w].kind = "chunk"
                  /\ Popped(aqueue'[w], aoverflow'[w]) =
                       [obj |-> cur[w].obj,
                        index |-> MIN2(length(heap, cur[w].obj),
                                       cur[w].index + ObjArrayMarkingStride)]]_vars

\* The remainder task of an array, with its start inside the array, is pending
\* after the array's first chunk has been taken.
C19_Witness ==
  \E w \in Workers : \E i \in DOMAIN aqueue[w] :
    /\ 0 < aqueue[w][i].index
    /\ aqueue[w][i].index < length(heap, aqueue[w][i].obj)
    /\ \E j \in DOMAIN chunkLog : chunkLog[j].obj = aqueue[w][i].obj
                                   /\ chunkLog[j].end = aqueue[w][i].index

\* The objects in a worker's object queue, overflow stack included.
ObjectTasks(w) == queue[w] \o overflow[w]

\* The workers inside mark_and_push on the object, past a mark_object call
\* that returned true and before the push.
Pushers(o) == {w \in Workers : pc[w] = "push" /\ Head(todo[w]).r = o}

\* A queued object is marked, not visited and in no marking worker's hands,
\* and no object is queued twice.
QueuedOnceUnvisited ==
  \A w \in Workers : \A i \in DOMAIN ObjectTasks(w) :
    LET o == ObjectTasks(w)[i] IN
      /\ o \in Oop /\ IsMarked(o) /\ visited[o] = 0 /\ Pushers(o) = {}
      /\ \A v \in Workers : \A j \in DOMAIN ObjectTasks(v) :
           ObjectTasks(v)[j] = o => (v = w /\ j = i)

\* An object in the hands of a worker whose mark_object call returned true is
\* marked, in no queue and not visited, and no second worker holds it so.
PushersOK ==
  \A w \in Workers :
    pc[w] = "push" =>
      LET o == Head(todo[w]).r IN
        /\ o \in Oop /\ IsMarked(o) /\ ~IsQueued(o) /\ visited[o] = 0
        /\ Pushers(o) = {w}

\* An object is marked if and only if a marking worker holds it, it is queued
\* or it has been visited; no object is visited twice.
MarkedAccounted ==
  \A o \in Oop :
    /\ visited[o] <= 1
    /\ IsMarked(o) <=> (Pushers(o) # {} \/ IsQueued(o) \/ visited[o] = 1)

\* C20: after every step, every queued object is marked and not visited, and
\* none is queued twice.  Every marked object is in exactly one of three conditions: in the
\* hands of one worker, the one whose mark_object call on it returned true
\* and that is about to push it; queued once; or visited, by the one worker
\* that took it off a queue.  A step adds an object to a queue only as the push
\* of the worker whose mark returned true, onto that worker's own queue.
C20_MarkedIsPushedQueuedOrVisited ==
  [][/\ QueuedOnceUnvisited' /\ PushersOK' /\ MarkedAccounted'
     /\ \A w \in Workers :
          Len(ObjectTasks(w)') > Len(ObjectTasks(w)) =>
            /\ Len(ObjectTasks(w)') = Len(ObjectTasks(w)) + 1
            /\ pc[w] = "push"
            /\ pc'[w] # "push" \/ todo'[w] # todo[w]
            /\ markRet[Head(todo[w]).r].t = 1
            /\ Popped(queue'[w], overflow'[w]) = Head(todo[w]).r
            /\ \A v \in Workers \ {w} : ObjectTasks(v)' = ObjectTasks(v)]_vars

\* A worker's mark_object call on an object returned true and the worker has
\* not pushed it yet: the object is marked, in no queue and not visited, while
\* a peer is following the fields of an object it took off a queue.
C20_Witness ==
  \E w \in Workers : \E v \in Workers \ {w} :
    /\ pc[w] = "push"
    /\ IsMarked(Head(todo[w]).r)
    /\ ~IsQueued(Head(todo[w]).r) /\ visited[Head(todo[w]).r] = 0
    /\ cur[v].kind = "obj" /\ visited[cur[v].obj] = 1

====
